---- MODULE Spec2Model ----
(***************************************************************************)
(* Deal health scoring (lib/deal-health-score): computeDealHealthScore and *)
(* its six component functions, run against a wall clock that may advance  *)
(* while an invocation is in progress.                                     *)
(*                                                                         *)
(* Representation.                                                         *)
(*  - A nullable value is Null (absent) or Some(v).                        *)
(*  - A string is a sequence of one-character strings.                     *)
(*  - win_probability, the component scores and the final score are      *)
(*    fixed-point numbers with denominator FracDen: Num(35) is 35 and      *)
(*    Num(12) + 1 is a non-integer. Day counts, amounts and weights are    *)
(*    plain integers. NaN is a sentinel.                                   *)
(*  - An instant is a number of clock ticks since the epoch (UTC); a day   *)
(*    has MS_PER_DAY ticks. The time zone is a fixed offset from UTC.      *)
(***************************************************************************)
EXTENDS Integers, Sequences, FiniteSets, TLC

\* ---------------------------------------------------------------- bounds

\* Clock ticks per 24 hours (the resolution at which MS_PER_DAY is modelled).
TicksPerDay == 2
\* Denominator of the fixed-point numbers (FracDen = 2: halves).
FracDen == 2
\* How many ticks the wall clock advances at most during a behaviour.
MaxTicks == 3
\* The UTC day on which the clock starts.
StartDay == 50

\* ------------------------------------------------------------- JS values

Null == <<>>
Some(v) == <<v>>
Val(x) == x[1]

NaN == -1000001

Num(n) == n * FracDen
IsInteger(x) == x # NaN /\ x % FracDen = 0

Max(a, b) == IF a >= b THEN a ELSE b
Min(a, b) == IF a <= b THEN a ELSE b

\* Math.max / Math.min: NaN if either argument is NaN.
MathMax(a, b) == IF a = NaN \/ b = NaN THEN NaN ELSE Max(a, b)
MathMin(a, b) == IF a = NaN \/ b = NaN THEN NaN ELSE Min(a, b)

\* Math.round replaced by Math.floor.
MathRoundDiv_floor(n, d) ==
  IF n = NaN THEN NaN ELSE Num(n \div (FracDen * d))

\* Math.round(n / d) for a fixed-point n and a positive integer d:
\* floor(n/d + 1/2), returned as a fixed-point integer value.
MathRoundDiv(n, d) ==
  IF n = NaN THEN NaN
  ELSE Num((2 * n + FracDen * d) \div (2 * FracDen * d))

\* ---------------------------------------------------------------- strings

UpperToLower ==
  ("A" :> "a") @@ ("B" :> "b") @@ ("C" :> "c") @@ ("D" :> "d") @@ ("E" :> "e") @@
  ("F" :> "f") @@ ("G" :> "g") @@ ("H" :> "h") @@ ("I" :> "i") @@ ("J" :> "j") @@
  ("K" :> "k") @@ ("L" :> "l") @@ ("M" :> "m") @@ ("N" :> "n") @@ ("O" :> "o") @@
  ("P" :> "p") @@ ("Q" :> "q") @@ ("R" :> "r") @@ ("S" :> "s") @@ ("T" :> "t") @@
  ("U" :> "u") @@ ("V" :> "v") @@ ("W" :> "w") @@ ("X" :> "x") @@ ("Y" :> "y") @@
  ("Z" :> "z")

toLowerCase(s) ==
  [i \in 1..Len(s) |-> IF s[i] \in DOMAIN UpperToLower THEN UpperToLower[s[i]] ELSE s[i]]

\* String.prototype.includes
includes(text, needle) ==
  \E i \in 1..(Len(text) - Len(needle) + 1) :
     SubSeq(text, i, i + Len(needle) - 1) = needle

\* [a, b].join(' ')
join(a, b) == a \o <<" ">> \o b

\* `x || ''` and `x ?? ''` on a nullable string.
OrEmpty(x) == IF x = Null THEN <<>> ELSE Val(x)

\* ------------------------------------------------------------- constants

MS_PER_DAY == TicksPerDay

PUSH_SIGNALS ==
  << <<"p","u","s","h","e","d">>,
     <<"d","e","l","a","y","e","d">>,
     <<"m","o","v","e","d"," ","o","u","t">>,
     <<"r","e","s","c","h","e","d","u","l","e","d">> >>

POSITIVE_KEYWORDS ==
  << <<"b","u","d","g","e","t"," ","c","o","n","f","i","r","m","e","d">>,
     <<"l","e","g","a","l"," ","e","n","g","a","g","e","d">>,
     <<"e","x","e","c"," ","s","p","o","n","s","o","r">>,
     <<"t","i","m","e","l","i","n","e"," ","c","o","m","m","i","t","t","e","d">>,
     <<"v","e","r","b","a","l"," ","c","o","m","m","i","t">>,
     <<"p","r","o","c","u","r","e","m","e","n","t">> >>

NEGATIVE_KEYWORDS ==
  << <<"n","o"," ","r","e","s","p","o","n","s","e">>,
     <<"c","i","r","c","l","i","n","g"," ","b","a","c","k">>,
     <<"w","a","i","t","i","n","g"," ","o","n"," ","a","p","p","r","o","v","a","l">>,
     <<"r","e","v","i","e","w","i","n","g"," ","i","n","t","e","r","n","a","l","l","y">>,
     <<"p","u","s","h","e","d">>,
     <<"d","e","l","a","y","e","d">>,
     <<"s","t","a","l","l","e","d">> >>

\* The own properties of the STAGE_BENCHMARKS object literal.
STAGE_BENCHMARKS ==
  (<<"s","o","l","u","t","i","o","n"," ","q","u","a","l","i","f","i","e","d">> :> 14) @@
  (<<"p","r","e","s","e","n","t","i","n","g"," ","t","o"," ","e","d","m">> :> 21) @@
  (<<"s","h","o","r","t"," ","l","i","s","t","e","d">> :> 21) @@
  (<<"c","o","n","t","r","a","c","t"," ","n","e","g","o","t","i","a","t","i","o","n","s">> :> 28) @@
  (<<"c","o","n","t","r","a","c","t"," ","s","i","g","n","e","d">> :> 14) @@
  (<<"i","m","p","l","e","m","e","n","t","i","n","g">> :> 30)

\* Property names every object literal inherits from Object.prototype that
\* are already lower case (toLowerCase leaves them unchanged). Their values
\* are a function and an object; used as a number either is NaN.
ObjectPrototypeKeys ==
  { <<"c","o","n","s","t","r","u","c","t","o","r">>,
    <<"_","_","p","r","o","t","o","_","_">> }

\* obj[key] on an object literal: an own property, else an inherited one,
\* else undefined (Null). The value is given as the number it coerces to.
GetProperty(obj, key) ==
  IF key \in DOMAIN obj THEN Some(obj[key])
  ELSE IF key \in ObjectPrototypeKeys THEN Some(NaN)
  ELSE Null

\* STAGE_BENCHMARKS[key] ?? 21
benchmark(key) ==
  LET p == GetProperty(STAGE_BENCHMARKS, key)
  IN  IF p = Null THEN 21 ELSE Val(p)

weights ==
  [stageProbability |-> 25, velocity |-> 20, activityRecency |-> 15,
   closeDateIntegrity |-> 10, acv |-> 15, notesSignal |-> 15]

ComponentNames ==
  <<"stageProbability", "velocity", "activityRecency",
    "closeDateIntegrity", "acv", "notesSignal">>

\* ------------------------------------------------------------------ state

VARIABLES
  clock,              \* the wall clock: the instant `new Date()` returns
  tz,                 \* the process's time zone: local time = UTC + tz ticks
  deal,               \* the CRMDealInput argument
  acvDistribution,    \* the population argument
  pc,                 \* where the invocation of computeDealHealthScore stands
  daysSinceActivity,  \* local of computeDealHealthScore
  notesResult,        \* local of computeDealHealthScore
  components,         \* the components object while it is being built
  todayMidnight,      \* the todayMidnight Date each of the three sites made
  result,             \* the returned HealthScoreResult
  deals,              \* the deals table: the row of each deal id, if any
  notes,              \* the notes table, in the order of created_at
  requests,           \* the POST /api/deals/{id}/health-score requests
  writes,             \* how many data writes the pages and the import made
  history             \* the deals and notes tables after each of these writes

\* The variables of one invocation of computeDealHealthScore.
scoreVars ==
  <<deal, acvDistribution, pc, daysSinceActivity, notesResult, components,
    todayMidnight, result>>

\* The variables of the database and of the requests to the route.
routeVars == <<deals, notes, requests, writes, history>>

vars ==
  <<clock, tz, deal, acvDistribution, pc, daysSinceActivity, notesResult,
    components, todayMidnight, result, deals, notes, requests, writes, history>>

\* ------------------------------------------------------------------ dates

\* An ISO date or timestamp string: the UTC day and tick it denotes, or a
\* string that Date cannot parse.
IsoString(d, k) == [valid |-> TRUE, day |-> d, tick |-> k]
InvalidDateString == [valid |-> FALSE, day |-> 0, tick |-> 0]

\* new Date(s).getTime()
DateGetTime(s) == IF s.valid THEN s.day * MS_PER_DAY + s.tick ELSE NaN

\* The Date left at the instant it was created at (no setHours).
setHoursZero_unset(now) == now

\* d = new Date(); d.setHours(0, 0, 0, 0); d.getTime(), with `now` the
\* instant new Date() returned: the latest local midnight not after now.
setHoursZero(now) == now - ((now + tz) % MS_PER_DAY)

\* Math.max(0, Math.floor((todayMidnight - new Date(ts).getTime()) / MS_PER_DAY))
daysSince(midnight, ts) ==
  LET t == DateGetTime(ts)
  IN  IF t = NaN THEN NaN ELSE MathMax(0, (midnight - t) \div MS_PER_DAY)

\* Math.ceil((new Date(closeDate).getTime() - todayMidnight) / MS_PER_DAY)
daysUntilClose(midnight, closeDate) ==
  LET t == DateGetTime(closeDate)
  IN  IF t = NaN THEN NaN ELSE 0 - ((midnight - t) \div MS_PER_DAY)

\* ---------------------------------------------------- component functions

\* scoreStageProbability without the clamp.
scoreStageProbability_unclamped(winProbability) ==
  IF winProbability = Null THEN Num(35) ELSE Val(winProbability)

\* scoreStageProbability testing `!winProbability` instead of `== null`.
scoreStageProbability_falsy(winProbability) ==
  IF winProbability = Null \/ Val(winProbability) = 0 THEN Num(35)
  ELSE MathMax(Num(0), MathMin(Num(100), Val(winProbability)))

scoreStageProbability(winProbability) ==
  IF winProbability = Null THEN Num(35)
  ELSE MathMax(Num(0), MathMin(Num(100), Val(winProbability)))

\* The bands of scoreVelocity for a day count d that is not null:
\* ratio = d / benchmark is compared exactly (ratio <= 0.8 iff
\* 10 * d <= 8 * benchmark); a NaN ratio fails every comparison.
velocityBand(d, stageName) ==
  LET key == toLowerCase(OrEmpty(stageName))
      b   == benchmark(key)
  IN  IF d = NaN \/ b = NaN THEN Num(10)
      ELSE IF 10 * d <= 8 * b  THEN Num(100)
      ELSE IF 10 * d <= 12 * b THEN Num(70)
      ELSE IF 10 * d <= 15 * b THEN Num(40)
      ELSE Num(10)

\* scoreVelocity without the null test: null / benchmark is 0 in JS.
scoreVelocity_noNullTest(days, stageName) ==
  velocityBand(IF days = Null THEN 0 ELSE Val(days), stageName)

\* daysSinceActivity is Null or Some(days).
scoreVelocity(days, stageName) ==
  IF days = Null THEN Num(70) ELSE velocityBand(Val(days), stageName)

\* The more recent of the two timestamps instead of latestNoteAt first.
recencyTimestamp_latest(latestNoteAt, lastActivityAt) ==
  IF latestNoteAt = Null THEN lastActivityAt
  ELSE IF lastActivityAt = Null THEN latestNoteAt
  ELSE IF DateGetTime(Val(lastActivityAt)) > DateGetTime(Val(latestNoteAt))
       THEN lastActivityAt ELSE latestNoteAt

\* ts = latestNoteAt || lastActivityAt
recencyTimestamp(latestNoteAt, lastActivityAt) ==
  IF latestNoteAt # Null THEN latestNoteAt ELSE lastActivityAt

scoreActivityRecency(latestNoteAt, lastActivityAt, now) ==
  LET ts == recencyTimestamp(latestNoteAt, lastActivityAt)
  IN  IF ts = Null THEN Num(40)
      ELSE LET days == daysSince(setHoursZero(now), Val(ts))
           IN  IF days = NaN THEN Num(10)
               ELSE IF days <= 7  THEN Num(100)
               ELSE IF days <= 14 THEN Num(70)
               ELSE IF days <= 30 THEN Num(40)
               ELSE Num(10)

\* closeDateBase treating a close date of today as overdue (<= 0).
closeDateBase_todayOverdue(closeDate, stageName, now) ==
  IF closeDate = Null THEN 60
  ELSE LET daysUntil == daysUntilClose(setHoursZero(now), Val(closeDate))
           stageKey  == toLowerCase(OrEmpty(stageName))
       IN  IF daysUntil = NaN THEN 100
           ELSE IF daysUntil <= 0
             THEN IF includes(stageKey, <<"i","m","p","l","e","m","e","n","t">>)
                     \/ includes(stageKey, <<"w","o","n">>)
                  THEN 100 ELSE 10
           ELSE IF daysUntil <= 30 THEN 70
           ELSE 100

closeDateBase(closeDate, stageName, now) ==
  IF closeDate = Null THEN 60
  ELSE LET daysUntil == daysUntilClose(setHoursZero(now), Val(closeDate))
           stageKey  == toLowerCase(OrEmpty(stageName))
       IN  IF daysUntil = NaN THEN 100
           ELSE IF daysUntil < 0
             THEN IF includes(stageKey, <<"i","m","p","l","e","m","e","n","t">>)
                     \/ includes(stageKey, <<"w","o","n">>)
                  THEN 100 ELSE 10
           ELSE IF daysUntil <= 30 THEN 70
           ELSE 100

\* pushCount counting every occurrence of a phrase, not each phrase once.
pushCount_occurrences(notesText) ==
  LET text == toLowerCase(notesText)
  IN  Cardinality({ij \in (1..Len(PUSH_SIGNALS)) \X (1..Len(text)) :
        /\ ij[2] + Len(PUSH_SIGNALS[ij[1]]) - 1 <= Len(text)
        /\ SubSeq(text, ij[2], ij[2] + Len(PUSH_SIGNALS[ij[1]]) - 1) = PUSH_SIGNALS[ij[1]]})

pushCount(notesText) ==
  LET text == toLowerCase(notesText)
  IN  Cardinality({i \in 1..Len(PUSH_SIGNALS) : includes(text, PUSH_SIGNALS[i])})

\* scoreCloseDateIntegrity clamping at 0 from below.
scoreCloseDateIntegrity_min0(closeDate, stageName, notesText, now) ==
  LET base == closeDateBase(closeDate, stageName, now)
  IN  Num(Max(0, Min(100, base - pushCount(notesText) * 20)))

scoreCloseDateIntegrity(closeDate, stageName, notesText, now) ==
  LET base == closeDateBase(closeDate, stageName, now)
  IN  Num(Max(10, Min(100, base - pushCount(notesText) * 20)))

\* scoreAcv counting the values at or below valueAmount (<=).
scoreAcv_atOrBelow(valueAmount, population) ==
  IF valueAmount = Null \/ Val(valueAmount) = 0 \/ Val(valueAmount) <= 0 THEN Num(40)
  ELSE IF Len(population) = 0 THEN Num(40)
  ELSE LET below == Cardinality({i \in 1..Len(population) : population[i] <= Val(valueAmount)})
           n     == Len(population)
       IN  IF 10 * below >= 8 * n THEN Num(100)
           ELSE IF 10 * below >= 4 * n THEN Num(70)
           ELSE Num(40)

\* scoreAcv with the 0.4 threshold exclusive (percentile > 0.4).
scoreAcv_above04(valueAmount, population) ==
  IF valueAmount = Null \/ Val(valueAmount) = 0 \/ Val(valueAmount) <= 0 THEN Num(40)
  ELSE IF Len(population) = 0 THEN Num(40)
  ELSE LET below == Cardinality({i \in 1..Len(population) : population[i] < Val(valueAmount)})
           n     == Len(population)
       IN  IF 10 * below >= 8 * n THEN Num(100)
           ELSE IF 10 * below > 4 * n THEN Num(70)
           ELSE Num(40)

scoreAcv(valueAmount, population) ==
  IF valueAmount = Null \/ Val(valueAmount) = 0 \/ Val(valueAmount) <= 0 THEN Num(40)
  ELSE IF Len(population) = 0 THEN Num(40)
  ELSE LET below == Cardinality({i \in 1..Len(population) : population[i] < Val(valueAmount)})
           n     == Len(population)
       IN  IF 10 * below >= 8 * n THEN Num(100)
           ELSE IF 10 * below >= 4 * n THEN Num(70)
           ELSE Num(40)

\* The keywords of `list` found in `text`, in list order.
matched(list, text) == SelectSeq(list, LAMBDA kw : includes(text, kw))

\* scoreNotesSignal matching the text as written (no toLowerCase).
scoreNotesSignal_caseSensitive(notesText) ==
  LET positive == matched(POSITIVE_KEYWORDS, notesText)
      negative == matched(NEGATIVE_KEYWORDS, notesText)
      score    == 50 + 10 * Len(positive) - 10 * Len(negative)
  IN  [score |-> Num(Max(0, Min(100, score))), positive |-> positive, negative |-> negative]

\* scoreNotesSignal skipping the negative keywords that are push signals
\* too (deduplicated across the two factors).
scoreNotesSignal_dedup(notesText) ==
  LET text     == toLowerCase(notesText)
      positive == matched(POSITIVE_KEYWORDS, text)
      negative == SelectSeq(NEGATIVE_KEYWORDS,
                     LAMBDA kw : includes(text, kw)
                                   /\ \A i \in 1..Len(PUSH_SIGNALS) : PUSH_SIGNALS[i] # kw)
      score    == 50 + 10 * Len(positive) - 10 * Len(negative)
  IN  [score |-> Num(Max(0, Min(100, score))), positive |-> positive, negative |-> negative]

scoreNotesSignal(notesText) ==
  LET text     == toLowerCase(notesText)
      positive == matched(POSITIVE_KEYWORDS, text)
      negative == matched(NEGATIVE_KEYWORDS, text)
      score    == 50 + 10 * Len(positive) - 10 * Len(negative)
  IN  [score |-> Num(Max(0, Min(100, score))), positive |-> positive, negative |-> negative]

\* [deal.deal_notes ?? '', deal.allNotesText].join(' ')
allText(d) == join(OrEmpty(d.deal_notes), d.allNotesText)

totalWeight ==
  weights.stageProbability + weights.velocity + weights.activityRecency
    + weights.closeDateIntegrity + weights.acv + weights.notesSignal

weightedSum(c) ==
  IF \E i \in 1..Len(ComponentNames) : c[ComponentNames[i]] = NaN THEN NaN
  ELSE weights.stageProbability * c.stageProbability
     + weights.velocity * c.velocity
     + weights.activityRecency * c.activityRecency
     + weights.closeDateIntegrity * c.closeDateIntegrity
     + weights.acv * c.acv
     + weights.notesSignal * c.notesSignal

\* Math.max(0, Math.min(100, Math.round(weightedSum / totalWeight)))
finalScore(c) ==
  MathMax(Num(0), MathMin(Num(100), MathRoundDiv(weightedSum(c), totalWeight)))

\* ----------------------------------------------------------------- inputs

TzOffsets == {0, 1}

ClockStart == StartDay * MS_PER_DAY
ClockEnd   == ClockStart + MaxTicks

Stages ==
  { Null,
    Some(<<"S","h","o","r","t"," ","L","i","s","t","e","d">>),
    Some(<<"S","o","l","u","t","i","o","n"," ","Q","u","a","l","i","f","i","e","d">>),
    Some(<<"C","o","n","t","r","a","c","t"," ","N","e","g","o","t","i","a","t","i","o","n","s">>),
    Some(<<"I","M","P","L","E","M","E","N","T","I","N","G">>),
    Some(<<"C","l","o","s","e","d"," ","W","o","n">>),
    Some(<<"D","i","s","c","o","v","e","r","y">>),
    Some(<<"C","o","n","s","t","r","u","c","t","o","r">>) }

\* Timestamps given as whole days before the day the clock starts on
\* (negative: in the future), at the first or the last tick of that day.
ActivityDaysAgo == {-2, 0, 7, 8, 14, 15, 17, 25, 26, 30, 31, 32, 46}

ActivityTimestamps ==
  {Null, Some(InvalidDateString)}
    \cup {Some(IsoString(StartDay - d, k)) : d \in ActivityDaysAgo, k \in {0, MS_PER_DAY - 1}}

NoteTimestamps ==
  {Null, Some(InvalidDateString)}
    \cup {Some(IsoString(StartDay - d, 1)) : d \in {0, 8, 31}}

CloseDates ==
  {Null, Some(InvalidDateString)}
    \cup {Some(IsoString(StartDay + d, 0)) : d \in {-10, -1, 0, 1, 2, 30, 31, 32}}

\* 12.5 is Num(12) + 1 when FracDen = 2; -1 and 101 lie outside [0, 100].
WinProbabilities ==
  {Null, Some(Num(-1)), Some(Num(0)), Some(Num(12) + 1), Some(Num(35)),
   Some(Num(100)), Some(Num(101))}

ValueAmounts == {Null, Some(0), Some(-5), Some(25), Some(41), Some(50)}

Populations == { <<>>, <<25>>, <<10, 20, 30, 40, 50>>, <<41, 41, 60>> }

InlineNotes ==
  { Null,
    Some(<<"P","u","s","h","e","d">>),
    Some(<<"n","o">>) }

NoteTexts ==
  { <<>>,
    <<"r","e","s","p","o","n","s","e">>,
    <<"r","e","s","c","h","e","d","u","l","e","d",","," ","m","o","v","e","d"," ","o","u","t">>,
    <<"B","u","d","g","e","t"," ","C","o","n","f","i","r","m","e","d"," ","a","n","d"," ",
      "E","x","e","c"," ","S","p","o","n","s","o","r"," ","o","n","b","o","a","r","d">>,
    <<"D","E","L","A","Y","E","D"," ","s","t","a","l","l","e","d">>,
    <<"p","u","s","h","e","d"," ","a","n","d"," ","p","u","s","h","e","d">>,
    <<"d","e","l","a","y","e","d",","," ","r","e","s","c","h","e","d","u","l","e","d",","," ","m","o","v","e","d"," ","o","u","t">>,
    <<"n","o"," ","r","e","s","p","o","n","s","e",","," ","c","i","r","c","l","i","n","g"," ","b","a","c","k",","," ">>
      \o <<"w","a","i","t","i","n","g"," ","o","n"," ","a","p","p","r","o","v","a","l",","," ","r","e","v","i","e","w","i","n","g"," ","i","n","t","e","r","n","a","l","l","y",","," ">>
      \o <<"p","u","s","h","e","d",","," ","d","e","l","a","y","e","d",","," ","s","t","a","l","l","e","d">> }

BudgetAndSponsorText ==
  <<"B","u","d","g","e","t"," ","C","o","n","f","i","r","m","e","d"," ","a","n","d"," ",
    "E","x","e","c"," ","S","p","o","n","s","o","r"," ","o","n","b","o","a","r","d">>

\* The input with every field absent and no notes.
AbsentDeal ==
  [win_probability |-> Null, stage_name |-> Null, value_amount |-> Null,
   close_date |-> Null, last_activity_at |-> Null, deal_notes |-> Null,
   latestNoteAt |-> Null, allNotesText |-> <<>>]

\* The inputs explored: each family varies the fields one group of
\* components reads and leaves the others absent.
TimingDeals ==
  { [AbsentDeal EXCEPT !.stage_name = s, !.last_activity_at = a] :
      s \in Stages, a \in ActivityTimestamps }
   \cup
  { [AbsentDeal EXCEPT !.last_activity_at = a, !.latestNoteAt = n] :
      a \in ActivityTimestamps, n \in NoteTimestamps }

SizingDeals ==
  { [AbsentDeal EXCEPT !.win_probability = w, !.value_amount = v] :
      w \in WinProbabilities, v \in ValueAmounts }

ClosingDeals ==
  { [AbsentDeal EXCEPT !.stage_name = s, !.close_date = c] :
      s \in Stages, c \in CloseDates }
   \cup
  { [AbsentDeal EXCEPT !.close_date = c, !.deal_notes = i, !.allNotesText = t] :
      c \in CloseDates, i \in InlineNotes, t \in NoteTexts }

DatedDeals ==
  { [AbsentDeal EXCEPT !.last_activity_at = a, !.latestNoteAt = n, !.close_date = c] :
      a \in {Some(IsoString(StartDay - d, 1)) : d \in {0, 7, 17}},
      n \in NoteTimestamps,
      c \in CloseDates }

\* Notes in which all seven negative keywords occur, two of them push
\* phrases.
AllNegativeText ==
  <<"n","o"," ","r","e","s","p","o","n","s","e",","," ","c","i","r","c","l","i","n","g"," ","b","a","c","k",","," ">>
    \o <<"w","a","i","t","i","n","g"," ","o","n"," ","a","p","p","r","o","v","a","l",","," ","r","e","v","i","e","w","i","n","g"," ","i","n","t","e","r","n","a","l","l","y",","," ">>
    \o <<"p","u","s","h","e","d",","," ","d","e","l","a","y","e","d",","," ","s","t","a","l","l","e","d">>

\* Deals with no chance of winning, long inactive, overdue, of no amount and
\* with the worst notes.
WorstDeals ==
  { [AbsentDeal EXCEPT !.win_probability = w,
                       !.last_activity_at = Some(IsoString(StartDay - 46, 1)),
                       !.close_date = Some(IsoString(StartDay - 10, 0)),
                       !.allNotesText = AllNegativeText] :
      w \in {Some(Num(0)), Some(Num(-1))} }

Inputs ==
  (TimingDeals \X {<<>>}) \cup (SizingDeals \X Populations)
    \cup (ClosingDeals \X {<<>>}) \cup (DatedDeals \X {<<>>})
    \cup (WorstDeals \X {<<>>})

\* ---------------------------------------------------------------- actions

\* const todayMidnight = new Date(); todayMidnight.setHours(0, 0, 0, 0):
\* the instant the Date was created at and its getTime() afterwards.
NewMidnight(now) == [now |-> now, time |-> setHoursZero(now)]

NoMidnights == [velocity |-> Null, activityRecency |-> Null, closeDateIntegrity |-> Null]

Init ==
  /\ clock = ClockStart
  /\ tz \in TzOffsets
  /\ \E in \in Inputs : deal = in[1] /\ acvDistribution = in[2]
  /\ pc = "idle"
  /\ daysSinceActivity = Null
  /\ notesResult = Null
  /\ components = Null
  /\ todayMidnight = NoMidnights
  /\ result = Null
  /\ deals = <<>>
  /\ notes = <<>>
  /\ requests = <<>>
  /\ writes = 0
  /\ history = <<>>

\* The wall clock advances; it may do so between any two steps.
Tick ==
  /\ clock < ClockEnd
  /\ clock' = clock + 1
  /\ UNCHANGED <<tz, deal, acvDistribution, pc, daysSinceActivity, notesResult,
                 components, todayMidnight, result>>
  /\ UNCHANGED routeVars

\* computeDealHealthScore up to and including the velocity component: the
\* first reading of the clock.
ComputeBegin ==
  /\ pc = "idle"
  /\ LET midnight == setHoursZero(clock)
         days     == IF deal.last_activity_at # Null
                     THEN Some(daysSince(midnight, Val(deal.last_activity_at)))
                     ELSE Null
     IN  /\ daysSinceActivity' = days
         /\ todayMidnight' =
              [NoMidnights EXCEPT
                 !.velocity = IF deal.last_activity_at # Null THEN Some(NewMidnight(clock)) ELSE Null]
         /\ notesResult' = scoreNotesSignal(allText(deal))
         /\ components' =
              [stageProbability |-> scoreStageProbability(deal.win_probability),
               velocity         |-> scoreVelocity(days, deal.stage_name)]
  /\ pc' = "activityRecency"
  /\ UNCHANGED <<clock, tz, deal, acvDistribution, result>>
  /\ UNCHANGED routeVars

\* The activityRecency component: scoreActivityRecency reads the clock anew.
ScoreActivityRecency ==
  /\ pc = "activityRecency"
  /\ components' =
       [stageProbability |-> components.stageProbability,
        velocity         |-> components.velocity,
        activityRecency  |->
          scoreActivityRecency(deal.latestNoteAt, deal.last_activity_at, clock)]
  /\ todayMidnight' =
       [todayMidnight EXCEPT
          !.activityRecency =
             IF recencyTimestamp(deal.latestNoteAt, deal.last_activity_at) # Null
             THEN Some(NewMidnight(clock)) ELSE Null]
  /\ pc' = "closeDateIntegrity"
  /\ UNCHANGED <<clock, tz, deal, acvDistribution, daysSinceActivity, notesResult, result>>
  /\ UNCHANGED routeVars

\* The closeDateIntegrity component (scoreCloseDateIntegrity reads the clock
\* anew), the two remaining components, the aggregation and the return.
ScoreCloseDateAndReturn ==
  /\ pc = "closeDateIntegrity"
  /\ LET c == [stageProbability   |-> components.stageProbability,
               velocity           |-> components.velocity,
               activityRecency    |-> components.activityRecency,
               closeDateIntegrity |->
                 scoreCloseDateIntegrity(deal.close_date, deal.stage_name, allText(deal), clock),
               acv                |-> scoreAcv(deal.value_amount, acvDistribution),
               notesSignal        |-> notesResult.score]
     IN  /\ components' = c
         /\ result' =
              [score      |-> finalScore(c),
               components |-> c,
               debug      |-> [daysSinceActivity |-> daysSinceActivity,
                               stageName         |-> deal.stage_name,
                               notesKeywords     |-> [positive |-> notesResult.positive,
                                                      negative |-> notesResult.negative]]]
  /\ todayMidnight' =
       [todayMidnight EXCEPT
          !.closeDateIntegrity =
             IF deal.close_date # Null THEN Some(NewMidnight(clock)) ELSE Null]
  /\ pc' = "returned"
  /\ UNCHANGED <<clock, tz, deal, acvDistribution, daysSinceActivity, notesResult>>
  /\ UNCHANGED routeVars

\* The caller has taken the result; the function may be called again.
NextCall ==
  /\ pc = "returned"
  /\ pc' = "idle"
  /\ daysSinceActivity' = Null
  /\ notesResult' = Null
  /\ components' = Null
  /\ todayMidnight' = NoMidnights
  /\ result' = Null
  /\ UNCHANGED <<clock, tz, deal, acvDistribution>>
  /\ UNCHANGED routeVars

Next ==
  \/ Tick
  \/ ComputeBegin
  \/ ScoreActivityRecency
  \/ ScoreCloseDateAndReturn
  \/ NextCall

Spec == Init /\ [][Next]_vars

\* ------------------------------------------------ the health-score route

\* computeDealHealthScore(deal, acvDistribution) as one value; now1, now2 and
\* now3 are the instants its three readings of the clock return (the one of
\* its own for daysSinceActivity, the one of scoreActivityRecency and the one
\* of scoreCloseDateIntegrity).
computeDealHealthScore(d, population, now1, now2, now3) ==
  LET text  == allText(d)
      days  == IF d.last_activity_at # Null
               THEN Some(daysSince(setHoursZero(now1), Val(d.last_activity_at)))
               ELSE Null
      found == scoreNotesSignal(text)
      c     == [stageProbability   |-> scoreStageProbability(d.win_probability),
                velocity           |-> scoreVelocity(days, d.stage_name),
                activityRecency    |->
                  scoreActivityRecency(d.latestNoteAt, d.last_activity_at, now2),
                closeDateIntegrity |->
                  scoreCloseDateIntegrity(d.close_date, d.stage_name, text, now3),
                acv                |-> scoreAcv(d.value_amount, population),
                notesSignal        |-> found.score]
  IN  [score      |-> finalScore(c),
       components |-> c,
       debug      |-> [daysSinceActivity |-> days,
                       stageName         |-> d.stage_name,
                       notesKeywords     |-> [positive |-> found.positive,
                                              negative |-> found.negative]]]

\* How many data writes the pages and the import make at most.
MaxWrites == 1
\* How many ticks the wall clock advances at most while the route is observed.
MaxRouteTicks == 1

\* The requests to the route: two, which may run concurrently.
RequestIds == {1, 2}

\* The ids a deal can have; an id without a row is a deal that does not exist.
DealIds == {1, 2, 3}

\* Two rows of deal_stages, under their sort_order.
deal_stages ==
  2 :> [stage_name |-> <<"S","o","l","u","t","i","o","n"," ","Q","u","a","l","i","f","i","e","d">>,
        win_probability |-> Some(Num(20))]
  @@
  5 :> [stage_name |-> <<"C","o","n","t","r","a","c","t"," ","N","e","g","o","t","i","a","t","i","o","n","s">>,
        win_probability |-> Some(Num(80))]

StageIds == DOMAIN deal_stages

\* new Date().toISOString() at the instant t
toISOString(t) == IsoString(t \div MS_PER_DAY, t % MS_PER_DAY)

\* The health columns of a deal that has not been scored.
NoHealth ==
  [health_score |-> Null, hs_stage_probability |-> Null, hs_velocity |-> Null,
   hs_activity_recency |-> Null, hs_close_date |-> Null, hs_acv |-> Null,
   hs_notes_signal |-> Null, health_debug |-> Null]

\* A row with some of its columns replaced: update(cols) and the spread of a
\* payload into an insert.
Merge(row, cols) ==
  [f \in DOMAIN row \cup DOMAIN cols |-> IF f \in DOMAIN cols THEN cols[f] ELSE row[f]]

\* A freshly inserted deals row: the columns the statement names, the others
\* at their defaults.
InsertedDeal(cols) ==
  Merge(Merge([stage_id |-> 2, value_amount |-> Null, close_date |-> Null,
               last_activity_at |-> Null, deal_notes |-> Null], NoHealth),
        cols)

\* The payload the add / edit form is saved with.
FormPayloads ==
  { [stage_id |-> 5, value_amount |-> Some(41), close_date |-> Some(IsoString(StartDay + 40, 0)),
     deal_notes |-> Some(<<"P","u","s","h","e","d">>)] }

\* The texts of the notes the edit modal logs.
NoteInputs ==
  { <<"d","e","l","a","y","e","d">> }

\* The rows a CSV import has parsed (value_amount 0: no valid ACV).
ParsedDeals ==
  << [stage_id |-> 5, value_amount |-> 60, close_date |-> Some(IsoString(StartDay + 40, 0)),
      deal_notes |-> <<"s","t","a","l","l","e","d">>],
     [stage_id |-> 2, value_amount |-> 0, close_date |-> Null, deal_notes |-> <<>>] >>

\* The deals the database holds at the start: deal 1, last touched eight days
\* before.
InitialDeals ==
  LET first == InsertedDeal([stage_id |-> 2, value_amount |-> Some(50),
                             close_date |-> Some(IsoString(StartDay + 1, 0)),
                             last_activity_at |-> Some(IsoString(StartDay - 8, 1))])
  IN  [d \in DealIds |-> IF d = 1 THEN Some(first) ELSE Null]

RouteClockEnd == ClockStart + MaxRouteTicks

\* A slot of `requests` that holds no request. user tells whether the
\* request carries the session of a signed-in user, as those the pages and the
\* import post do.
FreeRequest ==
  [pc |-> "free", id |-> 0, user |-> TRUE, began |-> 0, ended |-> 0, deal |-> Null,
   acvDistribution |-> Null, notesList |-> Null, reads |-> Null, result |-> Null,
   status |-> 0, body |-> Null]

FreeSlots(reqs) == {r \in RequestIds : reqs[r].pc = "free"}

RECURSIVE Posted(_, _, _)
\* fetch(`/api/deals/${id}/health-score`, { method: 'POST' }) for each id of
\* the sequence ids: the requests are in flight, `at` data writes made.
Posted(reqs, ids, at) ==
  IF ids = <<>> THEN reqs
  ELSE LET r == CHOOSE x \in FreeSlots(reqs) : \A y \in FreeSlots(reqs) : x <= y
       IN  Posted([reqs EXCEPT ![r] = [FreeRequest EXCEPT !.pc = "posted", !.id = Head(ids),
                                                         !.began = at]],
                  Tail(ids), at)

\* triggerHealthScore(dealId)
triggerHealthScore(reqs, dealId, at) == Posted(reqs, <<dealId>>, at)

\* The columns of a deal the pages and the import write.
DealData(ds, id) ==
  IF ds[id] = Null THEN Null
  ELSE Some([f \in {"stage_id", "value_amount", "close_date", "last_activity_at", "deal_notes"} |->
               Val(ds[id])[f]])

\* The data of the deals and notes tables: what the pages and the import have
\* written, without the health columns.
Database(ds, ns) == [deals |-> [d \in DOMAIN ds |-> DealData(ds, d)], notes |-> ns]

\* The ids the next inserted rows get: ids no row has had yet.
UnusedIds == {d \in DealIds : \A e \in DOMAIN history : history[e].deals[d] = Null}
NewId == CHOOSE d \in UnusedIds : \A e \in UnusedIds : d <= e

RECURSIVE ascending(_, _)
\* The value_amount of the deals `ids` of table ds, sorted ascending.
ascending(ids, ds) ==
  IF ids = {} THEN <<>>
  ELSE LET v(i) == Val(Val(ds[i]).value_amount)
           m    == CHOOSE i \in ids : \A j \in ids : v(i) < v(j) \/ (v(i) = v(j) /\ i <= j)
       IN  <<v(m)>> \o ascending(ids \ {m}, ds)

\* select value_amount from deals where value_amount is not null and
\* value_amount > 0, then .map(Number).filter(v => v > 0).sort((a, b) => a - b)
selectAcvDistribution(ds) ==
  ascending({d \in DOMAIN ds : /\ ds[d] # Null
                               /\ Val(ds[d]).value_amount # Null
                               /\ Val(Val(ds[d]).value_amount) > 0}, ds)

Reverse(s) == [i \in 1..Len(s) |-> s[Len(s) + 1 - i]]

selectNotes_anyEntity(ns, id) ==
  LET ofDeal(n) == n.entity_id = id
  IN  Reverse(SelectSeq(ns, ofDeal))

\* select note_text, created_at from notes where entity_type = 'deal' and
\* entity_id = id order by created_at desc
selectNotes(ns, id) ==
  LET ofDeal(n) == n.entity_type = "deal" /\ n.entity_id = id
  IN  Reverse(SelectSeq(ns, ofDeal))

\* notesList[0]?.created_at ?? null
latestNoteAtOf(notesList) ==
  IF Len(notesList) = 0 THEN Null ELSE Some(notesList[1].created_at)

RECURSIVE allNotesTextOf(_)
\* notesList.map(n => n.note_text).join(' ')
allNotesTextOf(notesList) ==
  IF Len(notesList) = 0 THEN <<>>
  ELSE IF Len(notesList) = 1 THEN notesList[1].note_text
  ELSE notesList[1].note_text \o <<" ">> \o allNotesTextOf(Tail(notesList))

\* The route passing the stored health_score on as the win probability.
dealInput_rescored(row, notesList) ==
  [win_probability  |-> IF row.health_score # Null THEN row.health_score
                        ELSE deal_stages[row.stage_id].win_probability,
   stage_name       |-> Some(deal_stages[row.stage_id].stage_name),
   value_amount     |-> IF row.value_amount # Null /\ Val(row.value_amount) # 0
                        THEN row.value_amount ELSE Null,
   close_date       |-> row.close_date,
   last_activity_at |-> row.last_activity_at,
   deal_notes       |-> row.deal_notes,
   latestNoteAt     |-> latestNoteAtOf(notesList),
   allNotesText     |-> allNotesTextOf(notesList)]

\* The CRMDealInput the route builds from the deal row (joined with its
\* stage) and the notes it loaded.
dealInput(row, notesList) ==
  [win_probability  |-> deal_stages[row.stage_id].win_probability,
   stage_name       |-> Some(deal_stages[row.stage_id].stage_name),
   value_amount     |-> IF row.value_amount # Null /\ Val(row.value_amount) # 0
                        THEN row.value_amount ELSE Null,
   close_date       |-> row.close_date,
   last_activity_at |-> row.last_activity_at,
   deal_notes       |-> row.deal_notes,
   latestNoteAt     |-> latestNoteAtOf(notesList),
   allNotesText     |-> allNotesTextOf(notesList)]

healthColumns_noAcv(res) ==
  [health_score         |-> Some(res.score),
   hs_stage_probability |-> Some(res.components.stageProbability),
   hs_velocity          |-> Some(res.components.velocity),
   hs_activity_recency  |-> Some(res.components.activityRecency),
   hs_close_date        |-> Some(res.components.closeDateIntegrity),
   hs_notes_signal      |-> Some(res.components.notesSignal),
   health_debug         |-> Some(res.debug)]

\* The columns the route's update statement sets.
healthColumns(res) ==
  [health_score         |-> Some(res.score),
   hs_stage_probability |-> Some(res.components.stageProbability),
   hs_velocity          |-> Some(res.components.velocity),
   hs_activity_recency  |-> Some(res.components.activityRecency),
   hs_close_date        |-> Some(res.components.closeDateIntegrity),
   hs_acv               |-> Some(res.components.acv),
   hs_notes_signal      |-> Some(res.components.notesSignal),
   health_debug         |-> Some(res.debug)]

\* update deals set ... where id = id: a statement that matches no row
\* changes nothing.
updateDeal(ds, id, cols) ==
  IF ds[id] = Null THEN ds ELSE [ds EXCEPT ![id] = Some(Merge(Val(ds[id]), cols))]

\* The notes the database holds at the start: one of deal 1, one of the
\* account with the same id, and one of a deal that has since been deleted.
InitialNotes ==
  << [entity_type |-> "deal", entity_id |-> 1,
      note_text |-> <<"r","e","s","c","h","e","d","u","l","e","d">>,
      created_at |-> IsoString(StartDay - 9, 0)],
     [entity_type |-> "account", entity_id |-> 1,
      note_text |-> <<"s","t","a","l","l","e","d">>,
      created_at |-> IsoString(StartDay - 2, 0)],
     [entity_type |-> "deal", entity_id |-> 4,
      note_text |-> <<"p","r","o","c","u","r","e","m","e","n","t">>,
      created_at |-> IsoString(StartDay - 1, 0)] >>

\* The database holds one deal and the initial notes, no request has been
\* posted, and the server's local time is one tick ahead of UTC: the first
\* tick of the clock starts a new local date.
InitRoute ==
  /\ clock = ClockStart
  /\ tz = 1
  /\ deal = AbsentDeal
  /\ acvDistribution = <<>>
  /\ pc = "idle"
  /\ daysSinceActivity = Null
  /\ notesResult = Null
  /\ components = Null
  /\ todayMidnight = NoMidnights
  /\ result = Null
  /\ deals = InitialDeals
  /\ notes = InitialNotes
  /\ requests = [r \in RequestIds |-> FreeRequest]
  /\ writes = 0
  /\ history = <<Database(InitialDeals, InitialNotes)>>

\* The wall clock advances; the step is taken while something is still to
\* read the clock (a write stamping a row, a request about to compute).
TickRoute ==
  /\ clock < RouteClockEnd
  /\ writes < MaxWrites \/ \E r \in RequestIds : requests[r].pc = "loadNotes"
  /\ clock' = clock + 1
  /\ UNCHANGED <<tz, scoreVars, routeVars>>

\* The deals the user opens in the modal or changes in the list.
EditingIds == {1}

\* addDealNote: the note is inserted; then the score is requested.
AddDealNote ==
  \E editing \in EditingIds, noteText \in NoteInputs :
    /\ deals[editing] # Null
    /\ writes < MaxWrites
    /\ FreeSlots(requests) # {}
    /\ notes' = Append(notes, [entity_type |-> "deal", entity_id |-> editing,
                               note_text |-> noteText, created_at |-> toISOString(clock)])
    /\ writes' = writes + 1
    /\ history' = Append(history, Database(deals, notes'))
    /\ requests' = triggerHealthScore(requests, editing, writes')
    /\ UNCHANGED <<clock, tz, scoreVars, deals>>

\* deleteDealNote: a note listed in the modal of a deal is deleted.
DeleteDealNote ==
  \E noteId \in DOMAIN notes :
    /\ notes[noteId].entity_type = "deal"
    /\ notes[noteId].entity_id \in EditingIds
    /\ deals[notes[noteId].entity_id] # Null
    /\ writes < MaxWrites
    /\ notes' = [i \in 1..(Len(notes) - 1) |-> IF i < noteId THEN notes[i] ELSE notes[i + 1]]
    /\ writes' = writes + 1
    /\ history' = Append(history, Database(deals, notes'))
    /\ UNCHANGED <<clock, tz, scoreVars, deals, requests>>

\* changeStage: the stage selector of a deal's row or card is changed.
ChangeStage ==
  \E id \in EditingIds, newStageId \in StageIds :
    /\ deals[id] # Null
    /\ newStageId # Val(deals[id]).stage_id
    /\ writes < MaxWrites
    /\ deals' = updateDeal(deals, id, [stage_id |-> newStageId,
                                       last_activity_at |-> Some(toISOString(clock))])
    /\ writes' = writes + 1
    /\ history' = Append(history, Database(deals', notes))
    /\ UNCHANGED <<clock, tz, scoreVars, notes, requests>>

\* handleSave with modal = 'add': the deal is inserted; then its score is
\* requested.
HandleSaveAdd ==
  \E payload \in FormPayloads :
    /\ UnusedIds # {}
    /\ writes < MaxWrites
    /\ FreeSlots(requests) # {}
    /\ deals' = [deals EXCEPT ![NewId] = Some(InsertedDeal(payload))]
    /\ writes' = writes + 1
    /\ history' = Append(history, Database(deals', notes))
    /\ requests' = triggerHealthScore(requests, NewId, writes')
    /\ UNCHANGED <<clock, tz, scoreVars, notes>>

\* handleSave with modal = 'edit': the deal is updated; then its score is
\* requested.
HandleSaveEdit ==
  \E editing \in EditingIds, payload \in FormPayloads :
    /\ deals[editing] # Null
    /\ writes < MaxWrites
    /\ FreeSlots(requests) # {}
    /\ deals' = updateDeal(deals, editing,
                           Merge(payload, [last_activity_at |-> Some(toISOString(clock))]))
    /\ writes' = writes + 1
    /\ history' = Append(history, Database(deals', notes))
    /\ requests' = triggerHealthScore(requests, editing, writes')
    /\ UNCHANGED <<clock, tz, scoreVars, notes>>

\* The deals the user asks to delete.
ConfirmDeleteIds == {1}

\* handleDelete: the deal is deleted (its notes stay: they refer to it by
\* entity_id only).
HandleDelete ==
  \E id \in ConfirmDeleteIds :
    /\ deals[id] # Null
    /\ writes < MaxWrites
    /\ deals' = [deals EXCEPT ![id] = Null]
    /\ writes' = writes + 1
    /\ history' = Append(history, Database(deals', notes))
    /\ UNCHANGED <<clock, tz, scoreVars, notes, requests>>

\* The import route: the first n parsed rows are inserted in one statement;
\* then the score of each inserted deal is requested.
ImportDeals ==
  \E n \in 1..Len(ParsedDeals) :
    /\ Cardinality(UnusedIds) >= n
    /\ Cardinality(FreeSlots(requests)) >= n
    /\ writes < MaxWrites
    /\ LET ids == [i \in 1..n |->
                     CHOOSE d \in UnusedIds : Cardinality({e \in UnusedIds : e < d}) = i - 1]
           row(i) == InsertedDeal(
                       [stage_id         |-> ParsedDeals[i].stage_id,
                        deal_notes       |-> IF ParsedDeals[i].deal_notes = <<>> THEN Null
                                             ELSE Some(ParsedDeals[i].deal_notes),
                        value_amount     |-> IF ParsedDeals[i].value_amount > 0
                                             THEN Some(ParsedDeals[i].value_amount) ELSE Null,
                        close_date       |-> ParsedDeals[i].close_date,
                        last_activity_at |-> Some(toISOString(clock))])
       IN  /\ deals' = [d \in DealIds |->
                          IF \E i \in 1..n : ids[i] = d
                          THEN Some(row(CHOOSE i \in 1..n : ids[i] = d))
                          ELSE deals[d]]
           /\ writes' = writes + 1
           /\ history' = Append(history, Database(deals', notes))
           /\ requests' = Posted(requests, ids, writes')
    /\ UNCHANGED <<clock, tz, scoreVars, notes>>

\* The ids clients post on their own: the first deal, also after it has been
\* deleted.
PostedIds == {1}

\* A client posts to /api/deals/{id}/health-score on its own, signed in or
\* not.
PostHealthScore ==
  \E id \in PostedIds, user \in BOOLEAN :
    /\ FreeSlots(requests) # {}
    /\ requests' = [r \in RequestIds |->
                      IF requests[r].pc = "free"
                      THEN [Posted(requests, <<id>>, writes)[r] EXCEPT !.user = user]
                      ELSE requests[r]]
    /\ UNCHANGED <<clock, tz, scoreVars, deals, notes, writes, history>>

\* The route up to its first read: supabase.auth.getUser() (no user, 401),
\* which reads none of the tables; then 1. load the deal with stage info
\* (no row, 404).
AuthenticateAndLoadDeal(r) ==
  /\ requests[r].pc = "posted"
  /\ requests' = [requests EXCEPT ![r] =
                    IF ~requests[r].user
                    THEN [@ EXCEPT !.pc = "done", !.status = 401, !.ended = writes]
                    ELSE IF deals[requests[r].id] = Null
                    THEN [@ EXCEPT !.pc = "done", !.status = 404, !.ended = writes]
                    ELSE [@ EXCEPT !.pc = "loadAcv", !.deal = deals[requests[r].id]]]
  /\ UNCHANGED <<clock, tz, scoreVars, deals, notes, writes, history>>

\* 2. ACV distribution across all deals.
LoadAcvDistribution(r) ==
  /\ requests[r].pc = "loadAcv"
  /\ requests' = [requests EXCEPT ![r] =
                    [@ EXCEPT !.pc = "loadNotes",
                              !.acvDistribution = Some(selectAcvDistribution(deals))]]
  /\ UNCHANGED <<clock, tz, scoreVars, deals, notes, writes, history>>

\* 3. Load the notes of the deal; 4. compute the score, the clock being read
\* three times, each reading at or after the one before; the computation is
\* synchronous and the clock ticks at most once while it runs.
LoadNotesAndCompute(r) ==
  /\ requests[r].pc = "loadNotes"
  /\ \E now1 \in {clock} :
     \E now2 \in now1..Min(now1 + 1, RouteClockEnd) :
     \E now3 \in now2..Min(now1 + 1, RouteClockEnd) :
       /\ clock' = now3
       /\ LET notesList == selectNotes(notes, requests[r].id)
              res == computeDealHealthScore(
                       dealInput(Val(requests[r].deal), notesList),
                       Val(requests[r].acvDistribution), now1, now2, now3)
          IN  requests' = [requests EXCEPT ![r] =
                             [@ EXCEPT !.pc = "persist", !.notesList = Some(notesList),
                                       !.reads = Some(<<now1, now2, now3>>),
                                       !.result = Some(res)]]
  /\ UNCHANGED <<tz, scoreVars, deals, notes, writes, history>>

\* 5. Persist: the update of the health columns succeeds (200 with the score
\* and the components) or fails (500); the handler returns and the lists it
\* had read are gone, after a failure all it had read and computed.
Persist(r) ==
  /\ requests[r].pc = "persist"
  /\ \E updateErr \in BOOLEAN :
       IF updateErr
       THEN /\ requests' = [requests EXCEPT ![r] =
                              [@ EXCEPT !.pc = "done", !.status = 500, !.ended = writes,
                                        !.deal = Null, !.acvDistribution = Null,
                                        !.notesList = Null, !.reads = Null,
                                        !.result = Null]]
            /\ UNCHANGED deals
       ELSE /\ deals' = updateDeal(deals, requests[r].id,
                                   healthColumns(Val(requests[r].result)))
            /\ requests' = [requests EXCEPT ![r] =
                              [@ EXCEPT !.pc = "done", !.status = 200, !.ended = writes,
                                        !.acvDistribution = Null, !.notesList = Null,
                                        !.body = Some([score |-> Val(requests[r].result).score,
                                                       components |-> Val(requests[r].result).components])]]
  /\ UNCHANGED <<clock, tz, scoreVars, notes, writes, history>>

NextRoute ==
  \/ TickRoute
  \/ AddDealNote
  \/ DeleteDealNote
  \/ ChangeStage
  \/ HandleSaveAdd
  \/ HandleSaveEdit
  \/ HandleDelete
  \/ ImportDeals
  \/ PostHealthScore
  \/ \E r \in RequestIds : AuthenticateAndLoadDeal(r)
  \/ \E r \in RequestIds : LoadAcvDistribution(r)
  \/ \E r \in RequestIds : LoadNotesAndCompute(r)
  \/ \E r \in RequestIds : Persist(r)

SpecRoute == InitRoute /\ [][NextRoute]_vars

\* ----------------------------------------------------------------- claims

Returned == pc = "returned"

Sites == {"velocity", "activityRecency", "closeDateIntegrity"}

\* The todayMidnight Dates the invocation made (a site whose field is absent
\* makes none).
MidnightsMade == {Val(todayMidnight[s]) : s \in {x \in Sites : todayMidnight[x] # Null}}

ResultComponents == {result.components[ComponentNames[i]] : i \in 1..Len(ComponentNames)}

InRange(x) == x # NaN /\ Num(0) <= x /\ x <= Num(100)

\* Every date or timestamp field of the input that is present parses.
DatesParse ==
  \A f \in {deal.last_activity_at, deal.latestNoteAt, deal.close_date} :
     f # Null => Val(f).valid

\* The calendar date (local day number) an instant falls on.
LocalDate(t) == (t + tz) \div MS_PER_DAY

\* The local midnight that starts the calendar date of instant t.
MidnightOf(t) == LocalDate(t) * MS_PER_DAY - tz

\* The components an invocation yields when every reading of the clock
\* returns the instant t.
ComponentsAt(t) ==
  [stageProbability   |-> scoreStageProbability(deal.win_probability),
   velocity           |->
     scoreVelocity(IF deal.last_activity_at # Null
                   THEN Some(daysSince(setHoursZero(t), Val(deal.last_activity_at)))
                   ELSE Null,
                   deal.stage_name),
   activityRecency    |-> scoreActivityRecency(deal.latestNoteAt, deal.last_activity_at, t),
   closeDateIntegrity |->
     scoreCloseDateIntegrity(deal.close_date, deal.stage_name, allText(deal), t),
   acv                |-> scoreAcv(deal.value_amount, acvDistribution),
   notesSignal        |-> scoreNotesSignal(allText(deal)).score]

\* C1 (range invariant): whenever computeDealHealthScore has returned, each
\* of the six components and the final score is an integer in [0, 100].
C1_RangeInvariant ==
  Returned =>
    /\ \A x \in ResultComponents : IsInteger(x) /\ InRange(x)
    /\ IsInteger(result.score) /\ InRange(result.score)

\* C2 (totality): whatever fields are absent and whatever the population,
\* a returned result carries a score and all six components, each a number
\* (never missing, never NaN) inside [0, 100].
C2_Total ==
  Returned =>
    /\ DOMAIN result = {"score", "components", "debug"}
    /\ DOMAIN result.components =
         {ComponentNames[i] : i \in 1..Len(ComponentNames)}
    /\ \A x \in ResultComponents : InRange(x)
    /\ InRange(result.score)

\* An invocation on the all-absent input with an empty population returned.
C2_Witness ==
  Returned /\ deal = AbsentDeal /\ acvDistribution = <<>>

\* C5 (single reference moment): in a returned invocation, all the day
\* counts were measured from one and the same midnight.
C5_SingleReference ==
  (Returned /\ DatesParse) => Cardinality({m.time : m \in MidnightsMade}) <= 1

DefaultComponents ==
  [stageProbability |-> Num(35), velocity |-> Num(70), activityRecency |-> Num(40),
   closeDateIntegrity |-> Num(60), acv |-> Num(40), notesSignal |-> Num(50)]

\* C6 as claimed: the all-absent input yields the default components and a
\* final score of 45, for every population and every time.
C6_DefaultScore45 ==
  (Returned /\ deal = AbsentDeal) =>
    result.components = DefaultComponents /\ result.score = Num(45)

\* C6 as amended: the all-absent input yields the default components
\* 35, 70, 40, 60, 40, 50 and a final score of 48 (= round(48.25)), for
\* every population and every time.
C6_DefaultScore48 ==
  (Returned /\ deal = AbsentDeal) =>
    result.components = DefaultComponents /\ result.score = Num(48)

\* The all-absent input was scored against a non-empty population after the
\* clock had moved on.
C6_Witness ==
  Returned /\ deal = AbsentDeal /\ acvDistribution # <<>> /\ clock > ClockStart

\* C7 (stage probability): the stageProbability component is 35 when
\* win_probability is absent, else win_probability itself when it lies in
\* [0, 100], 0 when it is negative and 100 when it exceeds 100.
C7_StageProbability ==
  Returned =>
    result.components.stageProbability =
      IF deal.win_probability = Null THEN Num(35)
      ELSE IF Val(deal.win_probability) < Num(0) THEN Num(0)
      ELSE IF Val(deal.win_probability) > Num(100) THEN Num(100)
      ELSE Val(deal.win_probability)

\* A win_probability of 0 (present, falsy) was scored as 0.
C7_Witness ==
  Returned /\ deal.win_probability = Some(Num(0))
    /\ result.components.stageProbability = Num(0)

\* C4 (time-of-day independence): an invocation whose readings of the
\* clock all fall on one calendar date returns the score and components
\* that an evaluation at any other moment of that date returns.
C4_TimeOfDayIndependent ==
  LET dates == {LocalDate(m.now) : m \in MidnightsMade}
  IN  (Returned /\ Cardinality(dates) <= 1) =>
        \A t \in ClockStart..ClockEnd :
           (\A d \in dates : LocalDate(t) = d) =>
              /\ result.components = ComponentsAt(t)
              /\ result.score = finalScore(ComponentsAt(t))

\* An invocation read the clock at all three sites on one date, and the
\* date has another moment than the one the invocation began at.
C4_Witness ==
  /\ Returned
  /\ \A s \in Sites : todayMidnight[s] # Null
  /\ DatesParse
  /\ Cardinality({LocalDate(m.now) : m \in MidnightsMade}) = 1
  /\ \E t \in ClockStart..ClockEnd :
        /\ t # Val(todayMidnight.velocity).now
        /\ LocalDate(t) = LocalDate(Val(todayMidnight.velocity).now)

\* The velocity benchmark as documented: the table entry of the lower-cased
\* stage name, 21 for any other or an absent stage name.
DocumentedBenchmark(stageName) ==
  LET key == toLowerCase(OrEmpty(stageName))
  IN  IF key \in DOMAIN STAGE_BENCHMARKS THEN STAGE_BENCHMARKS[key] ELSE 21

\* C8 (velocity bands): velocity is 70 when last_activity_at is absent;
\* for a last_activity_at that parses, with days = max(0, whole days from
\* it to the midnight the invocation read) and ratio = days / benchmark,
\* velocity is 100, 70, 40 or 10 as ratio is <= 0.8, <= 1.2, <= 1.5 or
\* above; a last_activity_at in the future gives 100.
C8_VelocityBands ==
  Returned =>
    IF deal.last_activity_at = Null
    THEN result.components.velocity = Num(70)
    ELSE Val(deal.last_activity_at).valid =>
      LET elapsed == Val(todayMidnight.velocity).time - DateGetTime(Val(deal.last_activity_at))
          days    == IF elapsed < 0 THEN 0 ELSE elapsed \div MS_PER_DAY
          b       == DocumentedBenchmark(deal.stage_name)
      IN  /\ result.debug.daysSinceActivity = Some(days)
          /\ result.components.velocity =
               IF 10 * days <= 8 * b THEN Num(100)
               ELSE IF 10 * days <= 12 * b THEN Num(70)
               ELSE IF 10 * days <= 15 * b THEN Num(40)
               ELSE Num(10)
          /\ elapsed < 0 => result.components.velocity = Num(100)

\* C9 (stage benchmark lookup): the benchmark the velocity component uses
\* is the table entry of the lower-cased stage name and 21 for every other
\* or absent stage name; it is always a positive number.
C9_BenchmarkLookup ==
  (Returned /\ deal.last_activity_at # Null) =>
    LET b == benchmark(toLowerCase(OrEmpty(deal.stage_name)))
    IN  b = DocumentedBenchmark(deal.stage_name) /\ b # NaN /\ b > 0

\* C10 (activity recency): the timestamp is latestNoteAt when present, else
\* last_activity_at; with both absent the component is 40; for a timestamp
\* that parses, with days = max(0, whole days from it to the midnight the
\* component read), it is 100, 70, 40, 10 for days <= 7, <= 14, <= 30, > 30.
C10_ActivityRecency ==
  Returned =>
    LET ts == IF deal.latestNoteAt # Null THEN deal.latestNoteAt ELSE deal.last_activity_at
    IN  IF ts = Null
        THEN result.components.activityRecency = Num(40)
        ELSE Val(ts).valid =>
          LET elapsed == Val(todayMidnight.activityRecency).time - DateGetTime(Val(ts))
          IN  result.components.activityRecency =
                IF elapsed < 8 * MS_PER_DAY THEN Num(100)
                ELSE IF elapsed < 15 * MS_PER_DAY THEN Num(70)
                ELSE IF elapsed < 31 * MS_PER_DAY THEN Num(40)
                ELSE Num(10)

\* latestNoteAt was used although last_activity_at is the more recent one:
\* the note is over 30 days old (10) and the activity under 8 days old.
C10_Witness ==
  /\ Returned
  /\ deal.latestNoteAt # Null /\ deal.last_activity_at # Null
  /\ DatesParse
  /\ DateGetTime(Val(deal.latestNoteAt)) < DateGetTime(Val(deal.last_activity_at))
  /\ clock - DateGetTime(Val(deal.last_activity_at)) < 7 * MS_PER_DAY
  /\ result.components.activityRecency = Num(10)

\* The lower-cased text of deal_notes combined with allNotesText.
CombinedText == toLowerCase(allText(deal))

\* The phrases of `list` that occur at least once in the combined text.
Found(list) == {list[i] : i \in {j \in 1..Len(list) : includes(CombinedText, list[j])}}

Clamp(x, lo, hi) == IF x < lo THEN lo ELSE IF x > hi THEN hi ELSE x

\* The close-date base as documented, for a close date that parses: e is
\* the time from the midnight the component read to the close date;
\* daysUntil = ceil(e / day) is negative iff e <= -day, and <= 30 iff
\* e <= 30 days.
DocumentedCloseBase ==
  IF deal.close_date = Null THEN 60
  ELSE LET e == DateGetTime(Val(deal.close_date)) - Val(todayMidnight.closeDateIntegrity).time
           stageKey == toLowerCase(OrEmpty(deal.stage_name))
       IN  IF e <= 0 - MS_PER_DAY
           THEN IF includes(stageKey, <<"i","m","p","l","e","m","e","n","t">>)
                   \/ includes(stageKey, <<"w","o","n">>)
                THEN 100 ELSE 10
           ELSE IF e <= 30 * MS_PER_DAY THEN 70
           ELSE 100

CloseDateParses == deal.close_date # Null => Val(deal.close_date).valid

\* C11 (close-date base): with no push-signal phrase in the notes,
\* closeDateIntegrity is 60 for an absent close_date; for an overdue one
\* (daysUntil < 0) 100 if the lower-cased stage name contains 'implement'
\* or 'won' and 10 otherwise; 70 for 0 <= daysUntil <= 30; 100 beyond. A
\* close date 10 days past gives 100 for 'IMPLEMENTING', 10 for 'Short Listed'.
C11_CloseDateBase ==
  (Returned /\ CloseDateParses /\ Found(PUSH_SIGNALS) = {}) =>
    /\ result.components.closeDateIntegrity = Num(DocumentedCloseBase)
    /\ deal.close_date = Some(IsoString(StartDay - 10, 0)) =>
         /\ deal.stage_name = Some(<<"I","M","P","L","E","M","E","N","T","I","N","G">>)
              => result.components.closeDateIntegrity = Num(100)
         /\ deal.stage_name = Some(<<"S","h","o","r","t"," ","L","i","s","t","e","d">>)
              => result.components.closeDateIntegrity = Num(10)

\* A close date that falls exactly on the midnight the component read
\* (daysUntil = 0) was scored 70: today is not overdue.
C11_Witness ==
  /\ Returned
  /\ deal.close_date # Null /\ Val(deal.close_date).valid
  /\ Found(PUSH_SIGNALS) = {}
  /\ DateGetTime(Val(deal.close_date)) = Val(todayMidnight.closeDateIntegrity).time
  /\ result.components.closeDateIntegrity = Num(70)

\* C12 (push-signal deduction): closeDateIntegrity is
\* clamp(base - 20 * pushCount, 10, 100) with pushCount the number of
\* distinct push phrases found in the combined notes; a repeated phrase
\* counts once; base 100 with two phrases gives 60, with four gives 20.
C12_PushDeduction ==
  (Returned /\ CloseDateParses) =>
    LET n == Cardinality(Found(PUSH_SIGNALS))
    IN  /\ result.components.closeDateIntegrity =
             Num(Clamp(DocumentedCloseBase - 20 * n, 10, 100))
        /\ result.components.closeDateIntegrity >= Num(10)
        /\ (DocumentedCloseBase = 100 /\ n = 2) =>
              result.components.closeDateIntegrity = Num(60)
        /\ (DocumentedCloseBase = 100 /\ n = 4) =>
              result.components.closeDateIntegrity = Num(20)

\* 'pushed' occurs three times in the combined notes, no other phrase does,
\* and base 100 lost 20 once.
C12_Witness ==
  /\ Returned
  /\ deal.deal_notes = Some(<<"P","u","s","h","e","d">>)
  /\ includes(deal.allNotesText, <<"p","u","s","h","e","d"," ","a","n","d"," ","p","u","s","h","e","d">>)
  /\ CloseDateParses /\ DocumentedCloseBase = 100
  /\ result.components.closeDateIntegrity = Num(80)

\* C13 (ACV percentile): acv is 40 when value_amount is absent or <= 0 or
\* the population is empty; else with percentile = (values strictly below
\* value_amount) / (population size) it is 100 for >= 0.8, 70 for >= 0.4
\* and 40 below; values equal to value_amount do not count as below.
C13_AcvPercentile ==
  Returned =>
    result.components.acv =
      IF deal.value_amount = Null THEN Num(40)
      ELSE IF Val(deal.value_amount) <= 0 THEN Num(40)
      ELSE IF acvDistribution = <<>> THEN Num(40)
      ELSE LET below == Cardinality({i \in DOMAIN acvDistribution :
                                       acvDistribution[i] < Val(deal.value_amount)})
               n     == Len(acvDistribution)
           IN  IF 5 * below >= 4 * n THEN Num(100)
               ELSE IF 5 * below >= 2 * n THEN Num(70)
               ELSE Num(40)

\* A value equal to two of three population values has none below it: 40.
C13_Witness ==
  /\ Returned
  /\ deal.value_amount = Some(41) /\ acvDistribution = <<41, 41, 60>>
  /\ result.components.acv = Num(40)

\* C14 as claimed: against [10, 20, 30, 40, 50] a value of 41 gets acv 100
\* and a value of 25 gets acv 40.
C14_PercentileExample ==
  (Returned /\ acvDistribution = <<10, 20, 30, 40, 50>>) =>
    /\ deal.value_amount = Some(41) => result.components.acv = Num(100)
    /\ deal.value_amount = Some(25) => result.components.acv = Num(40)

\* C14 as amended: against [10, 20, 30, 40, 50] a value of 41 has 4 of 5
\* below it (0.8) and gets acv 100; a value of 25 has 2 of 5 below it (10
\* and 20: percentile 0.4) and gets acv 70.
C14_PercentileExampleAmended ==
  (Returned /\ acvDistribution = <<10, 20, 30, 40, 50>>) =>
    /\ deal.value_amount = Some(41) => result.components.acv = Num(100)
    /\ deal.value_amount = Some(25) => result.components.acv = Num(70)

\* The value 25 was scored against [10, 20, 30, 40, 50].
C14_Witness ==
  Returned /\ acvDistribution = <<10, 20, 30, 40, 50>> /\ deal.value_amount = Some(25)

\* The elements of a sequence, and whether it lists each at most once.
Elements(seq) == {seq[i] : i \in DOMAIN seq}
NoRepeats(seq) == Cardinality(Elements(seq)) = Len(seq)

\* C15 (notes signal): notesSignal is clamp(50 + 10 P - 10 N, 0, 100) with
\* P and N the numbers of distinct positive and negative keywords found in
\* the combined notes, letter case ignored; the text 'Budget Confirmed and
\* Exec Sponsor onboard' alone gives 70; the debug trace lists exactly the
\* keywords found.
C15_NotesSignal ==
  Returned =>
    LET P == Found(POSITIVE_KEYWORDS)
        N == Found(NEGATIVE_KEYWORDS)
        k == result.debug.notesKeywords
    IN  /\ result.components.notesSignal =
             Num(Clamp(50 + 10 * Cardinality(P) - 10 * Cardinality(N), 0, 100))
        /\ Elements(k.positive) = P /\ NoRepeats(k.positive)
        /\ Elements(k.negative) = N /\ NoRepeats(k.negative)
        /\ (deal.deal_notes = Null /\ deal.allNotesText = BudgetAndSponsorText) =>
             result.components.notesSignal = Num(70)

C15_Witness ==
  /\ Returned
  /\ deal.deal_notes = Null /\ deal.allNotesText = BudgetAndSponsorText
  /\ result.components.notesSignal = Num(70)
  /\ Len(result.debug.notesKeywords.positive) = 2

\* The two phrases that are a push signal and a negative keyword.
SharedPhrases == Elements(PUSH_SIGNALS) \cap Elements(NEGATIVE_KEYWORDS)

\* C16 (accepted double penalty): each of 'pushed' and 'delayed' found in
\* the combined notes costs closeDateIntegrity 20 once and notesSignal 10
\* once: it is listed exactly once among the matched negative keywords,
\* and both factors count their phrases over the same text, each phrase
\* once however often it occurs.
C16_DoublePenalty ==
  (Returned /\ CloseDateParses) =>
    LET shared == Found(PUSH_SIGNALS) \cap SharedPhrases
        k      == result.debug.notesKeywords
    IN  /\ shared = Found(NEGATIVE_KEYWORDS) \cap SharedPhrases
        /\ \A kw \in shared :
              Cardinality({i \in DOMAIN k.negative : k.negative[i] = kw}) = 1
        /\ \A kw \in SharedPhrases \ shared : kw \notin Elements(k.negative)
        /\ result.components.closeDateIntegrity =
             Num(Clamp(DocumentedCloseBase
                         - 20 * Cardinality(shared)
                         - 20 * Cardinality(Found(PUSH_SIGNALS) \ SharedPhrases), 10, 100))
        /\ result.components.notesSignal =
             Num(Clamp(50 + 10 * Cardinality(Found(POSITIVE_KEYWORDS))
                          - 10 * Cardinality(shared)
                          - 10 * Cardinality(Found(NEGATIVE_KEYWORDS) \ SharedPhrases), 0, 100))

\* Only 'pushed' is found, three times over: the absent close date's base
\* 60 became 40 and the notes signal 50 became 40.
C16_Witness ==
  /\ Returned
  /\ deal.close_date = Null
  /\ deal.deal_notes = Some(<<"P","u","s","h","e","d">>)
  /\ Found(PUSH_SIGNALS) = {<<"p","u","s","h","e","d">>}
  /\ Found(NEGATIVE_KEYWORDS) = {<<"p","u","s","h","e","d">>}
  /\ Len(deal.allNotesText) > 0
  /\ result.components.closeDateIntegrity = Num(40)
  /\ result.components.notesSignal = Num(40)

AllComponents(x) ==
  [stageProbability |-> x, velocity |-> x, activityRecency |-> x,
   closeDateIntegrity |-> x, acv |-> x, notesSignal |-> x]

\* The sum of weight * component over the returned components (fixed point).
ReturnedWeightedSum ==
  25 * result.components.stageProbability + 20 * result.components.velocity
    + 15 * result.components.activityRecency + 10 * result.components.closeDateIntegrity
    + 15 * result.components.acv + 15 * result.components.notesSignal

\* C17 (weighted aggregation): the weights sum to 100; the returned score
\* is the integer nearest to (sum of weight * component) / 100, an exact
\* .5 rounding up, within [0, 100]; all components 100 aggregate to 100
\* and all components 0 to 0.
C17_WeightedAggregation ==
  /\ totalWeight = 100
  /\ finalScore(AllComponents(Num(100))) = Num(100)
  /\ finalScore(AllComponents(Num(0))) = Num(0)
  /\ Returned =>
       /\ IsInteger(result.score) /\ InRange(result.score)
       /\ 200 * result.score - 100 * FracDen <= 2 * ReturnedWeightedSum
       /\ 2 * ReturnedWeightedSum < 200 * result.score + 100 * FracDen

\* win_probability 0 with every other field absent: the weighted sum is
\* 3950, the mean 39.5, the score 40.
C17_Witness ==
  /\ Returned
  /\ deal = [AbsentDeal EXCEPT !.win_probability = Some(Num(0))]
  /\ ReturnedWeightedSum = Num(3950)
  /\ result.score = Num(40)

\* C18 (invalid fields degrade to the defaults): a last_activity_at,
\* latestNoteAt or close_date that is present but does not parse is scored
\* like an absent one: velocity 70, activityRecency 40 when no other
\* timestamp parses, close-date base 60.
C18_InvalidAsAbsent ==
  Returned =>
    /\ deal.last_activity_at = Some(InvalidDateString) =>
         result.components.velocity = Num(70)
    /\ ( /\ deal.latestNoteAt \in {Null, Some(InvalidDateString)}
         /\ deal.last_activity_at \in {Null, Some(InvalidDateString)} ) =>
         result.components.activityRecency = Num(40)
    /\ (deal.close_date = Some(InvalidDateString) /\ Found(PUSH_SIGNALS) = {}) =>
         result.components.closeDateIntegrity = Num(60)

\* The request r has persisted a result (and answered 200).
Persisted(r) == requests[r].pc = "done" /\ requests[r].status = 200

\* No write of the pages or the import was made between the posting of
\* request r and its response.
RanUndisturbed(r) == requests[r].began = requests[r].ended

\* The calendar dates on which request r read the clock.
ReadDates(r) == {LocalDate(Val(requests[r].reads)[i]) : i \in 1..3}

\* Two requests for the same deal that ran over the same unchanged data and
\* read the clock on one calendar date only.
SameDataSameDate(r1, r2) ==
  /\ r1 # r2
  /\ Persisted(r1) /\ Persisted(r2)
  /\ requests[r1].id = requests[r2].id
  /\ RanUndisturbed(r1) /\ RanUndisturbed(r2)
  /\ requests[r1].began = requests[r2].began
  /\ Cardinality(ReadDates(r1) \cup ReadDates(r2)) = 1

\* The health columns of a deals row.
StoredHealth(row) == [f \in DOMAIN NoHealth |-> row[f]]

\* C19 (concurrent recomputation): two requests for the same deal that run
\* on the same calendar date while no deal, note or population data changes
\* persist the same health_score, hs_* and debug values, and the values the
\* deal's row holds are those of a request that persisted: the stored result
\* is the same whichever update lands last.
C19_ConcurrentRecomputation ==
  \A r1, r2 \in RequestIds :
    SameDataSameDate(r1, r2) =>
      /\ requests[r1].result = requests[r2].result
      /\ requests[r1].body = requests[r2].body
      /\ \E r \in RequestIds :
           /\ Persisted(r)
           /\ requests[r].id = requests[r1].id
           /\ deals[requests[r1].id] # Null =>
                StoredHealth(Val(deals[requests[r1].id]))
                  = healthColumns(Val(requests[r].result))

\* Two such requests overlapped: each loaded the deal before either had
\* persisted (the row each read carried no score), and both have persisted.
C19_Witness ==
  \E r1, r2 \in RequestIds :
    /\ SameDataSameDate(r1, r2)
    /\ deals[requests[r1].id] # Null
    /\ Val(requests[r1].deal).health_score = Null
    /\ Val(requests[r2].deal).health_score = Null
    /\ Val(deals[requests[r1].id]).health_score = Some(Val(requests[r2].result).score)

\* A step that posts a new request for the score of deal id.
ScoreRequested(id) ==
  \E r \in RequestIds :
    /\ requests[r].pc = "free"
    /\ requests'[r].pc = "posted"
    /\ requests'[r].id = id

\* C20 (scoring triggers): every step that changes the notes of a deal (a
\* note added or deleted) or writes a deal (the add or edit form saved, the
\* stage changed inline, a row inserted by the import) posts a request to
\* /api/deals/{id}/health-score for that deal once the change is written.
C20_ScoringTriggers ==
  [][\A id \in DealIds :
       (deals'[id] # Null
          /\ (DealData(deals', id) # DealData(deals, id)
                \/ selectNotes(notes', id) # selectNotes(notes, id)))
         => ScoreRequested(id)]_vars

\* The components a row stores in its hs_ columns.
StoredComponents(row) ==
  [stageProbability   |-> Val(row.hs_stage_probability),
   velocity           |-> Val(row.hs_velocity),
   activityRecency    |-> Val(row.hs_activity_recency),
   closeDateIntegrity |-> Val(row.hs_close_date),
   acv                |-> Val(row.hs_acv),
   notesSignal        |-> Val(row.hs_notes_signal)]

ScoreIsAggregate(row) ==
  \/ row.health_score = Null
  \/ /\ \A f \in DOMAIN NoHealth \ {"health_debug"} : row[f] # Null
     /\ Val(row.health_score) = finalScore(StoredComponents(row))

\* Request r runs the route's update statement in this step.
PersistStep(r) == requests[r].pc = "persist" /\ requests'[r].pc = "done"

\* C21: under every interleaving of recomputations and edits, a stored
\* health_score is unset or the weighted aggregate of the hs_ components
\* stored with it; the health columns of a deal change only in the update of a
\* request for that deal, all at once and to the values of one result; and
\* that update changes the row of no other deal.
C21_OneUpdateOneDeal ==
  [][/\ \A d \in DealIds : deals'[d] # Null => ScoreIsAggregate(Val(deals'[d]))
     /\ \A r \in RequestIds :
          PersistStep(r) => \A d \in DealIds \ {requests[r].id} : deals'[d] = deals[d]
     /\ \A d \in DealIds :
          (/\ deals[d] # Null
           /\ deals'[d] # Null
           /\ StoredHealth(Val(deals'[d])) # StoredHealth(Val(deals[d])))
          => \E r \in RequestIds :
               /\ PersistStep(r)
               /\ requests[r].id = d
               /\ DealData(deals', d) = DealData(deals, d)
               /\ StoredHealth(Val(deals'[d])) = healthColumns(Val(requests[r].result))]_vars

\* Two recomputations of one deal, an edit between their postings, have both
\* run their update, with different results, next to another stored deal or
\* not; the row stores the columns of one of them.
C21_Witness ==
  \E r1, r2 \in RequestIds :
    /\ Persisted(r1)
    /\ Persisted(r2)
    /\ requests[r1].id = requests[r2].id
    /\ requests[r1].began < requests[r2].began
    /\ requests[r1].result # requests[r2].result
    /\ deals[requests[r1].id] # Null
    /\ StoredHealth(Val(deals[requests[r1].id])) = healthColumns(Val(requests[r1].result))
    /\ ScoreIsAggregate(Val(deals[requests[r1].id]))

\* C22: the population the route reads for a request holds positive amounts
\* only, and they are the amounts of the other deals: the entry of the deal
\* being scored is not in it.
C22_PopulationOfOtherDeals ==
  [][\A r \in RequestIds :
       (requests[r].pc = "loadAcv" /\ requests'[r].pc = "loadNotes") =>
         LET population == Val(requests'[r].acvDistribution)
         IN  /\ \A i \in DOMAIN population : population[i] > 0
             /\ population = selectAcvDistribution([deals EXCEPT ![requests[r].id] = Null])]_vars

\* What request r passes to computeDealHealthScore comes from the tables as
\* they were after the e-th write.
SnapshotOf(r, e) ==
  /\ DealData([d \in DealIds |-> requests[r].deal], requests[r].id)
       = history[e].deals[requests[r].id]
  /\ Val(requests[r].acvDistribution) = selectAcvDistribution(history[e].deals)
  /\ Val(requests[r].notesList) = selectNotes(history[e].notes, requests[r].id)

\* C23: the deal row, the population and the notes a request passes to one
\* computeDealHealthScore call all reflect one single state of the database,
\* also when an edit, a note insert or an import commits between the reads.
C23_OneSnapshot ==
  \A r \in RequestIds :
    requests[r].pc = "persist" => \E e \in DOMAIN history : SnapshotOf(r, e)

\* Request r is answered in this step.
Responds(r) == requests[r].pc # "done" /\ requests'[r].pc = "done"

\* The score and the components the row of deal id stores.
StoredScore(ds, id) ==
  [score |-> Val(Val(ds[id]).health_score), components |-> StoredComponents(Val(ds[id]))]

\* C24: a 401 is answered before any deal is read and writes nothing, a 404
\* and a 500 leave every deal unchanged and carry no score; only a 200 carries
\* score and components, and they are the values the row of the deal has just
\* been given.
C24_ErrorPathsAndResponse ==
  [][\A r \in RequestIds :
       Responds(r) =>
         /\ requests'[r].status \in {401, 404, 500, 200}
         /\ requests'[r].status = 401 =>
              requests[r].pc = "posted" /\ requests'[r].deal = Null
         /\ requests'[r].status \in {401, 404, 500} =>
              deals' = deals /\ requests'[r].body = Null
         /\ requests'[r].status = 200 =>
              /\ requests'[r].body # Null
              /\ deals'[requests[r].id] # Null
              /\ Val(deals'[requests[r].id]).health_score # Null
              /\ StoredScore(deals', requests[r].id) = Val(requests'[r].body)]_vars

\* Request r was posted after the last write, so that all its reads saw the
\* newest state of the tables, and ran its update.
ReadNewestState(r) == Persisted(r) /\ requests[r].began = writes

\* C25: a request that read an older state never overwrites the result of a
\* request that read the newer state, so that once the edits have stopped and
\* the requests have completed the stored columns are those computed from the
\* final fields, stage, notes and population: a request whose update replaces
\* the stored result of a request that read the newest state has itself read
\* the newest state.
C25_NoStaleOverwrite ==
  [][\A r \in RequestIds :
       (/\ PersistStep(r)
        /\ requests'[r].status = 200
        /\ deals[requests[r].id] # Null
        /\ \E r2 \in RequestIds :
             /\ requests[r2].id = requests[r].id
             /\ ReadNewestState(r2)
             /\ StoredHealth(Val(deals[requests[r].id])) = healthColumns(Val(requests[r2].result)))
       => SnapshotOf(r, Len(history))]_vars

\* The rows of the notes table that are notes of deal id.
OwnNotes(ns, id) == {i \in DOMAIN ns : ns[i].entity_type = "deal" /\ ns[i].entity_id = id}

RECURSIVE TextLength(_, _)
\* The length of the texts of the rows S joined with one space between them.
TextLength(ns, S) ==
  IF S = {} THEN 0
  ELSE LET i == CHOOSE j \in S : TRUE
       IN  Len(ns[i].note_text) + (IF S = {i} THEN 0 ELSE 1 + TextLength(ns, S \ {i}))

\* Request r reads the notes and calls computeDealHealthScore in this step.
ComputeStep(r) == requests[r].pc = "loadNotes" /\ requests'[r].pc = "persist"

\* C26: the latestNoteAt passed to computeDealHealthScore is the greatest
\* created_at among the notes of the deal, null when it has none, and the
\* allNotesText is the texts of all its notes joined, the empty string when it
\* has none; notes of other deals and of other entity types add nothing.
C26_NotesOfTheDealOnly ==
  [][\A r \in RequestIds :
       ComputeStep(r) =>
         LET own   == OwnNotes(notes, requests[r].id)
             input == dealInput(Val(requests'[r].deal), Val(requests'[r].notesList))
         IN  /\ own = {} => input.latestNoteAt = Null
             /\ own # {} =>
                  /\ input.latestNoteAt # Null
                  /\ \E i \in own : notes[i].created_at = Val(input.latestNoteAt)
                  /\ \A i \in own : DateGetTime(notes[i].created_at)
                                      <= DateGetTime(Val(input.latestNoteAt))
             /\ \A i \in own : includes(input.allNotesText, notes[i].note_text)
             /\ Len(input.allNotesText) = TextLength(notes, own)]_vars

\* A request has read the two notes of its deal from a table that also holds
\* a note of an account with the deal's id and a note of another deal.
C26_Witness ==
  \E r \in RequestIds :
    /\ requests[r].pc = "persist"
    /\ Len(Val(requests[r].notesList)) = 2
    /\ \E i \in DOMAIN notes :
         notes[i].entity_type = "account" /\ notes[i].entity_id = requests[r].id
    /\ \E i \in DOMAIN notes :
         notes[i].entity_type = "deal" /\ notes[i].entity_id # requests[r].id

\* C27: for every input velocity, activityRecency and closeDateIntegrity are
\* at least 10 and acv is at least 40, and the final score is at least 11: a
\* score of 0 is never returned.
C27_ScoreFloor ==
  Returned =>
    /\ \A x \in {result.components.velocity, result.components.activityRecency,
                 result.components.closeDateIntegrity} : x # NaN /\ x >= Num(10)
    /\ result.components.acv # NaN /\ result.components.acv >= Num(40)
    /\ result.score # NaN /\ result.score >= Num(11)

\* The worst deal was scored: 0, 10, 10, 10, 40 and 0 give 10.5, rounded 11.
C27_Witness ==
  /\ Returned
  /\ result.components =
       [stageProbability |-> Num(0), velocity |-> Num(10), activityRecency |-> Num(10),
        closeDateIntegrity |-> Num(10), acv |-> Num(40), notesSignal |-> Num(0)]
  /\ result.score = Num(11)

\* C28: for the input at hand velocity and activityRecency never increase as
\* the current time advances; and a returned activityRecency of 100 with no
\* latestNoteAt comes with a velocity of 100, whatever the stage name.
C28_DecayAndCoupling ==
  /\ deal # Null =>
       \A t1, t2 \in ClockStart..ClockEnd :
         t1 <= t2 =>
           /\ ComponentsAt(t2).velocity <= ComponentsAt(t1).velocity
           /\ ComponentsAt(t2).activityRecency <= ComponentsAt(t1).activityRecency
  /\ (Returned /\ deal.latestNoteAt = Null
        /\ result.components.activityRecency = Num(100))
       => result.components.velocity = Num(100)

\* The deals with a positive amount in a state of the deals table.
PositiveDeals(ds) ==
  {d \in DOMAIN ds : /\ ds[d] # Null
                     /\ Val(ds[d]).value_amount # Null
                     /\ Val(Val(ds[d]).value_amount) > 0}

\* C29: the system having held fewer than 5 deals with a positive amount all
\* along, no deal is stored with hs_acv = 100; and a deal that has been the
\* only one with a positive amount all along is stored with hs_acv = 40.
C29_SmallPopulation ==
  \A d \in DealIds :
    (deals[d] # Null /\ Val(deals[d]).hs_acv # Null) =>
      /\ (\A e \in DOMAIN history : Cardinality(PositiveDeals(history[e].deals)) < 5)
           => Val(deals[d]).hs_acv # Some(Num(100))
      /\ (\A e \in DOMAIN history : PositiveDeals(history[e].deals) = {d})
           => Val(deals[d]).hs_acv = Some(Num(40))

\* The number of calendar days from the local date on which the close-date
\* component read the clock to the close date.
CalendarDaysUntilClose ==
  Val(deal.close_date).day - LocalDate(Val(todayMidnight.closeDateIntegrity).now)

\* C30: for every time zone offset and every time of day, daysUntil is the
\* number of calendar days from the current date to close_date: a close date
\* of yesterday is overdue, one of today is not (70), and one exactly 30 days
\* ahead is in the 70 band.
C30_CalendarDays ==
  (Returned /\ deal.close_date # Null /\ Val(deal.close_date).valid
     /\ Found(PUSH_SIGNALS) = {}) =>
    LET daysUntil == daysUntilClose(Val(todayMidnight.closeDateIntegrity).time,
                                    Val(deal.close_date))
        overdue   == IF \/ includes(toLowerCase(OrEmpty(deal.stage_name)),
                                    <<"i","m","p","l","e","m","e","n","t">>)
                        \/ includes(toLowerCase(OrEmpty(deal.stage_name)), <<"w","o","n">>)
                     THEN Num(100) ELSE Num(10)
    IN  /\ daysUntil = CalendarDaysUntilClose
        /\ CalendarDaysUntilClose = -1 =>
             daysUntil < 0 /\ result.components.closeDateIntegrity = overdue
        /\ CalendarDaysUntilClose = 0 =>
             daysUntil >= 0 /\ result.components.closeDateIntegrity = Num(70)
        /\ CalendarDaysUntilClose = 30 =>
             result.components.closeDateIntegrity = Num(70)

====
